---- MODULE Spec2Model ----
(***************************************************************************)
(* FortinetDriver (napalm_fortinet/fortinet.py): the connection lifecycle, *)
(* the command executor _send_command and the text parsers behind the      *)
(* get_* queries.                                                          *)
(*                                                                         *)
(* Text.  A Python string is modelled as a sequence of atoms.  An atom is  *)
(* either one of the characters the code splits, strips or searches on     *)
(* (" ", "\n", ":", "=", ",", "/", "\"", "[", "]", "v", a decimal digit,   *)
(* the two-character "->", a four-space indentation unit) or a word: a run *)
(* of characters that no operation applied to the text it occurs in looks  *)
(* into.  Every string operation of the code is computed on these          *)
(* sequences as Python computes it on characters.                          *)
(***************************************************************************)
EXTENDS Integers, Sequences, FiniteSets, TLC

VARIABLES device, transport, last

vars == <<device, transport, last>>

----
\* Bounds of the model.

MaxVariants == 3
MaxArpLines == 2
MaxNeighbors == 2
MaxIpLines == 2

----
\* Atoms.

SP == " "
NL == "\n"
IND == "    "
Digits == <<"0", "1", "2", "3", "4", "5", "6", "7", "8", "9">>

IsSpace(a) == a \in {SP, NL, IND}

----
\* Python's string operations on atom sequences.

\* Body(x) with x evaluated once, before Body: Python evaluates an argument
\* before the call.
Strict(Body(_), x) == CHOOSE r \in {Body(v) : v \in {x}} : TRUE

StartsWithAt(t, pat, i) ==
    /\ i >= 1
    /\ i + Len(pat) - 1 <= Len(t)
    /\ SubSeq(t, i, i + Len(pat) - 1) = pat

\* str.find, 1-based: the least index >= from at which pat occurs, else 0.
FindIn(t, pat, from) ==
    LET hits == {i \in from..(Len(t) - Len(pat) + 1) : StartsWithAt(t, pat, i)}
    IN  IF hits = {} THEN 0 ELSE CHOOSE i \in hits : \A j \in hits : i <= j

Find(t, pat, from) == Strict(LAMBDA v : FindIn(v, pat, from), t)

\* pat in t
Contains(t, pat) == Find(t, pat, 1) # 0

\* t.split(sep) with a separator: empty pieces are kept, "".split(sep) = [""].
RECURSIVE SplitFrom(_, _, _)
SplitFrom(t, sep, from) ==
    LET i == FindIn(t, sep, from)
    IN  IF i = 0 THEN <<SubSeq(t, from, Len(t))>>
        ELSE <<SubSeq(t, from, i - 1)>> \o SplitFrom(t, sep, i + Len(sep))

Split(t, sep) == Strict(LAMBDA v : SplitFrom(v, sep, 1), t)

\* t.replace(old, new)
RECURSIVE ReplaceFrom(_, _, _, _)
ReplaceFrom(t, old, new, from) ==
    LET i == FindIn(t, old, from)
    IN  IF i = 0 THEN SubSeq(t, from, Len(t))
        ELSE SubSeq(t, from, i - 1) \o new \o ReplaceFrom(t, old, new, i + Len(old))

Replace(t, old, new) == Strict(LAMBDA v : ReplaceFrom(v, old, new, 1), t)

\* t.lstrip(chars), t.rstrip(chars), t.strip(chars) for a set of characters.
LStripIn(t, chars) ==
    LET keep == {i \in 1..Len(t) : t[i] \notin chars}
    IN  IF keep = {} THEN <<>>
        ELSE SubSeq(t, CHOOSE i \in keep : \A j \in keep : i <= j, Len(t))

LStripSet(t, chars) == Strict(LAMBDA v : LStripIn(v, chars), t)

RStripIn(t, chars) ==
    LET keep == {i \in 1..Len(t) : t[i] \notin chars}
    IN  IF keep = {} THEN <<>>
        ELSE SubSeq(t, 1, CHOOSE i \in keep : \A j \in keep : i >= j)

RStripSet(t, chars) == Strict(LAMBDA v : RStripIn(v, chars), t)

StripSet(t, chars) == RStripSet(LStripSet(t, chars), chars)

\* t.strip()
Strip(t) == StripSet(t, {SP, NL, IND})

\* t.splitlines(): the pieces between line breaks; a final line break opens no
\* further line, and "".splitlines() = [].
DropLastIfEmpty(parts) ==
    IF parts[Len(parts)] = <<>> THEN SubSeq(parts, 1, Len(parts) - 1) ELSE parts

SplitLines(t) == Strict(DropLastIfEmpty, Split(t, <<NL>>))

\* t.split(): the maximal runs of non-whitespace; no empty piece.
RECURSIVE SplitWsFrom(_, _)
SplitWsFrom(t, from) ==
    LET words == {i \in from..Len(t) : ~IsSpace(t[i])}
        b == CHOOSE i \in words : \A j \in words : i <= j
        ws == {i \in b..Len(t) : IsSpace(t[i])}
        e == IF ws = {} THEN Len(t) + 1 ELSE CHOOSE i \in ws : \A j \in ws : i <= j
    IN  IF words = {} THEN <<>>
        ELSE <<SubSeq(t, b, e - 1)>> \o SplitWsFrom(t, e)

SplitWs(t) == Strict(LAMBDA v : SplitWsFrom(v, 1), t)

DigitValue(a) == CHOOSE d \in 0..9 : Digits[d + 1] = a

IsDigit(a) == \E d \in 1..10 : Digits[d] = a

RECURSIVE DecimalValue(_)
DecimalValue(t) ==
    IF t = <<>> THEN 0
    ELSE 10 * DecimalValue(SubSeq(t, 1, Len(t) - 1)) + DigitValue(t[Len(t)])

----
\* Outcomes of a call: a returned value or a raised exception.

Return(v) == [kind |-> "return", value |-> v]
Raise(e) == [kind |-> "raise", value |-> e]

\* int(t): surrounding whitespace is ignored, then one or more decimal digits.
IntOfStripped(s) ==
    IF s # <<>> /\ \A i \in 1..Len(s) : IsDigit(s[i])
    THEN Return(DecimalValue(s)) ELSE Raise("ValueError")

PyInt(t) == Strict(IntOfStripped, Strip(t))

\* float(t) of the unsigned decimal numerals the device prints.
PyFloat(t) == PyInt(t)

\* seq[i] with Python's 0-based index.
IndexIn(seq, i) == IF i + 1 <= Len(seq) THEN Return(seq[i + 1]) ELSE Raise("IndexError")

Index(seq, i) == Strict(LAMBDA v : IndexIn(v, i), seq)

----
\* The session (netmiko) behind self.device.

\* The error marker of the device.
InvalidInput == <<"Invalid", SP, "input", ":", SP>>

\* self.device.send_command(cmd) where the session answers r = [fault, out].
DeviceSendCommand(dev, r) ==
    IF dev = "None" THEN Raise("AttributeError")
    ELSE IF r.fault # "none" THEN Raise(r.fault)
    ELSE Return(r.out)

\* The session's answers to the n commands of one call: the device's outputs
\* outs, and the transport failing at command plan.at (0: never).
FaultPlans(dev, tr, n) ==
    IF dev = "None" THEN {[at |-> 0, kind |-> "none"]}
    ELSE IF dev = "closed"
    THEN {[at |-> 1, kind |-> k] : k \in {"AttributeError", "socket.error"}}
    ELSE IF tr = "dead"
    THEN {[at |-> 1, kind |-> k] : k \in {"socket.error", "EOFError"}}
    ELSE {[at |-> 0, kind |-> "none"]}
         \cup {[at |-> i, kind |-> k] : i \in 1..n, k \in {"socket.error", "EOFError"}}

Answers(outs, plan) ==
    [i \in 1..Len(outs) |->
        [fault |-> IF i = plan.at THEN plan.kind ELSE "none", out |-> outs[i]]]

\* The transport after a call that ended with outcome r.
TransportAfterCall(dev, tr, r) ==
    IF dev = "open" /\ r.kind = "raise" /\ r.value = "ConnectionClosedException"
    THEN "dead" ELSE tr

\* Lines, each ended by a line break, as one text.
RECURSIVE Unlines(_)
Unlines(lines) ==
    IF lines = <<>> THEN <<>> ELSE Head(lines) \o <<NL>> \o Unlines(Tail(lines))

\* The sequences over S of length 0..n.
SeqUpTo(S, n) == UNION {[1..k -> S] : k \in 0..n}

----
\* FortinetDriver._send_command

\* The for loop over the variants, from variant i; bound is whether `output`
\* has been assigned; sent are the commands handed to the session.
\* The same loop with the break left out: every variant is sent.
RECURSIVE SendVariantsNoBreak(_, _, _, _, _, _)
SendVariantsNoBreak(dev, cmds, resp, i, output, bound) ==
    IF i > Len(cmds)
    THEN IF bound THEN [kind |-> "return", value |-> output, sent |-> SubSeq(cmds, 1, i - 1)]
         ELSE [kind |-> "raise", value |-> "UnboundLocalError", sent |-> <<>>]
    ELSE Strict(LAMBDA r :
                    IF r.kind = "raise"
                    THEN [kind |-> "raise", value |-> r.value, sent |-> SubSeq(cmds, 1, i)]
                    ELSE SendVariantsNoBreak(dev, cmds, resp, i + 1, r.value, TRUE),
                IF dev = "None" THEN Raise("AttributeError")
                ELSE IF resp[i].fault # "none" THEN Raise(resp[i].fault)
                ELSE Return(resp[i].out))

RECURSIVE SendVariants(_, _, _, _, _, _)
SendVariants(dev, cmds, resp, i, output, bound) ==
    IF i > Len(cmds)
    THEN IF bound THEN [kind |-> "return", value |-> output, sent |-> SubSeq(cmds, 1, i - 1)]
         ELSE [kind |-> "raise", value |-> "UnboundLocalError", sent |-> <<>>]
    ELSE Strict(LAMBDA r :
                    IF r.kind = "raise"
                    THEN [kind |-> "raise", value |-> r.value, sent |-> SubSeq(cmds, 1, i)]
                    ELSE IF ~Contains(r.value, InvalidInput)
                    THEN [kind |-> "return", value |-> r.value, sent |-> SubSeq(cmds, 1, i)]
                    ELSE SendVariants(dev, cmds, resp, i + 1, r.value, TRUE),
                DeviceSendCommand(dev, resp[i]))

\* The try block.
SendCommandBody(dev, command, resp) ==
    IF command.isList
    THEN SendVariants(dev, command.cmds, resp, 1, <<>>, FALSE)
    ELSE Strict(LAMBDA r : [kind |-> r.kind, value |-> r.value, sent |-> command.cmds],
                DeviceSendCommand(dev, resp[1]))

\* The exceptions the except clause catches.
SendCommandCaughtSocketOnly == {"socket.error"}

SendCommandCaught == {"socket.error", "EOFError"}

_send_command(dev, command, resp) ==
    Strict(LAMBDA r :
               IF r.kind = "raise" /\ r.value \in SendCommandCaught
               THEN [r EXCEPT !.value = "ConnectionClosedException"]
               ELSE r,
           SendCommandBody(dev, command, resp))

\* A query's commands, each through _send_command with a single string: the
\* outputs in order, or the first exception.
RECURSIVE SendAll(_, _, _, _)
SendAll(dev, cmds, resp, i) ==
    IF i > Len(cmds) THEN Return(<<>>)
    ELSE Strict(LAMBDA r :
                    IF r.kind = "raise" THEN Raise(r.value)
                    ELSE Strict(LAMBDA rest :
                                    IF rest.kind = "raise" THEN rest
                                    ELSE Return(<<r.value>> \o rest.value),
                                SendAll(dev, cmds, resp, i + 1)),
                _send_command(dev, [isList |-> FALSE, cmds |-> <<cmds[i]>>], <<resp[i]>>))

----
\* FortinetDriver.get_arp_table

\* The loop over sys_arp.splitlines()[1:], from line i of lines.
\* The dict of one line: its items are evaluated in the order age, interface,
\* ip, mac.
ArpEntry(line_vals) ==
    LET c1 == IndexIn(line_vals, 1)
        age == PyFloat(c1.value)
        c3 == IndexIn(line_vals, 3)
    IN  IF c1.kind = "raise" THEN c1
        ELSE IF age.kind = "raise" THEN age
        ELSE IF c3.kind = "raise" THEN c3
        ELSE Return([age |-> age.value, interface |-> line_vals[4],
                     ip |-> line_vals[1], mac |-> line_vals[3]])

RECURSIVE ArpLoop(_, _, _)
ArpLoop(lines, i, arps) ==
    IF i > Len(lines) THEN Return(arps)
    ELSE Strict(LAMBDA arp_entry :
                    IF arp_entry.kind = "raise" THEN arp_entry
                    ELSE Strict(LAMBDA appended : ArpLoop(lines, i + 1, appended),
                                Append(arps, arp_entry.value)),
                Strict(ArpEntry, SplitWs(lines[i])))

\* lines[1:]
ArpDataLinesAll(lines) == lines

ArpDataLines(lines) == SubSeq(lines, 2, Len(lines))

ParseArp(sys_arp) ==
    Strict(LAMBDA lines : ArpLoop(lines, 1, <<>>), ArpDataLines(SplitLines(sys_arp)))

CmdArp == <<"get", SP, "system", SP, "arp">>

get_arp_table(dev, resp) ==
    Strict(LAMBDA s : IF s.kind = "raise" THEN s ELSE ParseArp(s.value[1]),
           SendAll(dev, <<CmdArp>>, resp, 1))

----
\* FortinetDriver.get_bgp_config

QUOTE == "\""

\* ^ and $ under re.MULTILINE.
AtLineStart(t, i) == i = 1 \/ (i > 1 /\ i - 1 <= Len(t) /\ t[i - 1] = NL)

AtLineEnd(t, i) == i = Len(t) + 1 \/ (i <= Len(t) /\ t[i] = NL)

Least(S) == CHOOSE i \in S : \A j \in S : i <= j

\* re.search("^    config neighbor\n(?:.*?)\n    end$", t, MULTILINE | DOTALL):
\* the leftmost start, then the nearest line break followed by `    end` and the
\* end of a line.  The line break of the opening line is consumed by the
\* pattern, so the closing one is another.  <<>> stands for no match (None).
NeighborBlockOpen == <<IND, "config", SP, "neighbor", NL>>

NeighborBlockClose == <<NL, IND, "end">>

NeighborBlockEnds(t, p) ==
    {q \in (p + Len(NeighborBlockOpen))..Len(t) :
        /\ StartsWithAt(t, NeighborBlockClose, q)
        /\ AtLineEnd(t, q + Len(NeighborBlockClose))}

SearchNeighborBlockIn(t) ==
    LET starts == {p \in 1..Len(t) :
                      /\ AtLineStart(t, p)
                      /\ StartsWithAt(t, NeighborBlockOpen, p)
                      /\ NeighborBlockEnds(t, p) # {}}
    IN  IF starts = {} THEN <<>>
        ELSE Strict(LAMBDA p :
                        SubSeq(t, p, Least(NeighborBlockEnds(t, p))
                                     + Len(NeighborBlockClose) - 1),
                    Least(starts))

SearchNeighborBlock(t) == Strict(SearchNeighborBlockIn, t)

\* One match of '^        edit "?(.*?)"?\n(?:.*?)?\n?        next$' starting at s:
\* [ok, group1, stop], stop being the index of the match's last atom.
EditOpen == <<IND, IND, "edit", SP>>

EditClose == <<IND, IND, "next">>

EditMatchAt(n, s) ==
    IF ~(AtLineStart(n, s) /\ StartsWithAt(n, EditOpen, s)) THEN [ok |-> FALSE]
    ELSE LET a0 == s + Len(EditOpen)
             a == IF a0 <= Len(n) /\ n[a0] = QUOTE THEN a0 + 1 ELSE a0
             nls == {i \in a..Len(n) : n[i] = NL}
         IN  IF nls = {} THEN [ok |-> FALSE]
             ELSE Strict(LAMBDA nl :
                      LET g == IF nl - 1 >= a /\ n[nl - 1] = QUOTE THEN nl - 2 ELSE nl - 1
                          closes == {r \in (nl + 1)..Len(n) :
                                        /\ StartsWithAt(n, EditClose, r)
                                        /\ AtLineEnd(n, r + Len(EditClose))}
                      IN  IF closes = {} THEN [ok |-> FALSE]
                          ELSE [ok |-> TRUE, group1 |-> SubSeq(n, a, g),
                                stop |-> Least(closes) + Len(EditClose) - 1],
                      Least(nls))

\* re.finditer over neighbors from index `from`: group(1) of each match, in order.
RECURSIVE FindEditsFrom(_, _)
FindEditsFrom(n, from) ==
    LET starts == {s \in from..Len(n) : EditMatchAt(n, s).ok}
    IN  IF starts = {} THEN <<>>
        ELSE Strict(LAMBDA m : <<m.group1>> \o FindEditsFrom(n, m.stop + 1),
                    EditMatchAt(n, Least(starts)))

FindEdits(n, from) == Strict(LAMBDA v : FindEditsFrom(v, from), n)

PrefixLimitDefault ==
    [inet |-> [unicast |-> [limit |-> 0, teardown |-> [threshold |-> 0, timeout |-> 0]]]]

NeighborDefault ==
    [authentication_key |-> <<>>, description |-> <<>>, export_policy |-> <<>>,
     import_policy |-> <<>>, local_address |-> <<>>, local_as |-> 0, nhs |-> FALSE,
     prefix_limit |-> PrefixLimitDefault, remote_as |-> 0,
     route_reflector_client |-> FALSE]

Range(f) == {f[i] : i \in DOMAIN f}

BgpInstance(keys) ==
    [apply_groups |-> <<>>, description |-> <<>>, export_policy |-> <<>>,
     import_policy |-> <<>>, local_address |-> <<>>, local_as |-> 0,
     multihop_ttl |-> 0, multipath |-> FALSE,
     neighbors |-> [k \in keys |-> NeighborDefault],
     prefix_limit |-> PrefixLimitDefault, remote_as |-> 0,
     remove_private_as |-> FALSE, type |-> <<>>]

ParseBgp(show_router_bgp) ==
    Strict(LAMBDA re_neighbors :
               IF re_neighbors = <<>> THEN Raise("AttributeError")
               ELSE Return([instance |->
                               BgpInstance(Range(FindEdits(Strip(re_neighbors), 1)))]),
           SearchNeighborBlock(show_router_bgp))

CmdBgp == <<"show", SP, "full-configuration", SP, "router", SP, "bgp">>

get_bgp_config(dev, resp) ==
    Strict(LAMBDA s : IF s.kind = "raise" THEN s ELSE ParseBgp(s.value[1]),
           SendAll(dev, <<CmdBgp>>, resp, 1))

----
\* FortinetDriver.get_facts

\* None, and a value that is not None.
None == [some |-> FALSE, v |-> <<>>]
Some(v) == [some |-> TRUE, v |-> v]

\* The chain of replace calls and the strip on sys_perf_uptime.
UptimeFormatted(sys_perf_uptime) ==
    Strip(Replace(Replace(Replace(Replace(sys_perf_uptime,
        <<"Uptime", ":">>, <<>>),
        <<SP, "days", ",", SP, SP>>, <<":">>),
        <<SP, "hours", ",", SP, SP>>, <<":">>),
        <<SP, "minutes">>, <<":">>))

\* dict(zip(("d", "h", "m"), parts))[key]
UptimeField(parts, key) ==
    LET i == CASE key = "d" -> 1 [] key = "h" -> 2 [] key = "m" -> 3
    IN  IF i <= Len(parts) THEN Return(parts[i]) ELSE Raise("KeyError")

\* The seconds of one unit: int(uptime_dict[key]) * factor.
UptimeTerm(parts, key, factor) ==
    LET f == UptimeField(parts, key)
        n == PyInt(f.value)
    IN  IF f.kind = "raise" THEN f
        ELSE IF n.kind = "raise" THEN n
        ELSE Return(n.value * factor)

\* The sum, its terms evaluated in the order m, h, d.
UptimeSeconds(parts) ==
    LET m == UptimeTerm(parts, "m", 60)
        h == UptimeTerm(parts, "h", 60 * 60)
        d == UptimeTerm(parts, "d", 60 * 60 * 24)
    IN  IF m.kind = "raise" THEN m
        ELSE IF h.kind = "raise" THEN h
        ELSE IF d.kind = "raise" THEN d
        ELSE Return(m.value + h.value + d.value)

ParseUptime(sys_perf_uptime) ==
    Strict(UptimeSeconds, Split(UptimeFormatted(sys_perf_uptime), <<":">>))

\* The body of the loop over sys_status.splitlines() for one line; st holds
\* model, os_version, serial_number and hostname.
StatusLine(st, line) ==
    LET rhs == Index(Split(line, <<":", SP>>), 1)
        line_vals == Split(rhs.value, <<SP>>)
        v1 == Index(line_vals, 1)
        words == Index(Split(line, <<SP>>), 1)
        hasVersion == Contains(line, <<"Version", ":", SP>>)
        hasSerial == Contains(line, <<"Serial-Number", ":", SP>>)
        hasHostname == Contains(line, <<"Hostname", ":", SP>>)
        st1 == IF hasVersion
               THEN [st EXCEPT !.model = Some(line_vals[1]),
                               !.os_version =
                                   Some(LStripSet(Split(v1.value, <<",">>)[1], {"v"}))]
               ELSE st
        st2 == IF hasSerial THEN [st1 EXCEPT !.serial_number = Some(words.value)] ELSE st1
        st3 == IF hasHostname THEN [st2 EXCEPT !.hostname = Some(words.value)] ELSE st2
    IN  IF hasVersion /\ rhs.kind = "raise" THEN rhs
        ELSE IF hasVersion /\ v1.kind = "raise" THEN v1
        ELSE IF (hasSerial \/ hasHostname) /\ words.kind = "raise" THEN words
        ELSE Return(st3)

RECURSIVE StatusLoop(_, _, _)
StatusLoop(st, lines, i) ==
    IF i > Len(lines) THEN Return(st)
    ELSE Strict(LAMBDA r : IF r.kind = "raise" THEN r
                           ELSE StatusLoop(r.value, lines, i + 1),
                Strict(LAMBDA line : StatusLine(st, line), lines[i]))

\* fqdn from hostname and the output of the dns query.
Fqdn(hostname, sys_dns_domain) ==
    Strict(LAMBDA domain :
               IF Len(domain) > 1 /\ domain[2] # <<>>
               THEN IF hostname.some
                    THEN Return(Some(hostname.v \o <<".">>
                                     \o Replace(Strip(domain[2]), <<QUOTE>>, <<>>)))
                    ELSE Raise("TypeError")
               ELSE Return(hostname),
           Split(Strip(sys_dns_domain), <<":">>))

\* line.lstrip("== [ ").strip(" ]") of each line of the interface query.
InterfaceList(sys_intf_eqeq) ==
    Strict(LAMBDA lines :
               [i \in 1..Len(lines) |->
                   StripSet(LStripSet(lines[i], {"=", SP, "["}), {SP, "]"})],
           SplitLines(sys_intf_eqeq))

ParseFacts(sys_status, sys_perf_uptime, sys_dns_domain, sys_intf_eqeq) ==
    Strict(LAMBDA uptime :
        IF uptime.kind = "raise" THEN uptime
        ELSE Strict(LAMBDA st :
            IF st.kind = "raise" THEN st
            ELSE Strict(LAMBDA fqdn :
                IF fqdn.kind = "raise" THEN fqdn
                ELSE Return([os_version |-> st.value.os_version,
                             uptime |-> uptime.value,
                             interface_list |-> InterfaceList(sys_intf_eqeq),
                             vendor |-> <<"Fortinet">>,
                             serial_number |-> st.value.serial_number,
                             model |-> st.value.model,
                             hostname |-> st.value.hostname,
                             fqdn |-> fqdn.value]),
                Fqdn(st.value.hostname, sys_dns_domain)),
            Strict(LAMBDA lines :
                       StatusLoop([model |-> None, os_version |-> None,
                                   serial_number |-> None, hostname |-> None], lines, 1),
                   SplitLines(sys_status))),
        ParseUptime(sys_perf_uptime))

CmdStatus == <<"get", SP, "system", SP, "status">>
CmdUptime ==
    <<"get", SP, "system", SP, "performance", SP, "status", SP, "|", SP, "grep", SP, "Uptime">>
CmdDns == <<"get", SP, "system", SP, "dns", SP, "|", SP, "grep", SP, "domain">>
CmdIntf == <<"get", SP, "system", SP, "interface", SP, "|", SP, "grep", SP, "=", "=">>

get_facts(dev, resp) ==
    Strict(LAMBDA s : IF s.kind = "raise" THEN s
                      ELSE ParseFacts(s.value[1], s.value[2], s.value[3], s.value[4]),
           SendAll(dev, <<CmdStatus, CmdUptime, CmdDns, CmdIntf>>, resp, 1))

----
\* FortinetDriver.get_interfaces_ip

\* The dotted quads of the model and their octets.
DottedQuads ==
    [a \in {"10.0.0.1", "192.0.2.1", "0.0.0.0", "255.255.255.0", "255.255.255.255"} |->
        CASE a = "10.0.0.1" -> <<10, 0, 0, 1>>
          [] a = "192.0.2.1" -> <<192, 0, 2, 1>>
          [] a = "0.0.0.0" -> <<0, 0, 0, 0>>
          [] a = "255.255.255.0" -> <<255, 255, 255, 0>>
          [] a = "255.255.255.255" -> <<255, 255, 255, 255>>]

IsDottedQuad(t) == Len(t) = 1 /\ t[1] \in DOMAIN DottedQuads

\* An address as ipaddress holds it, a 32-bit integer: its bits, the most
\* significant first.
OctetBits(o) == [i \in 1..8 |-> (o \div (2 ^ (8 - i))) % 2]

IpInt(t) ==
    LET o == DottedQuads[t[1]]
    IN  OctetBits(o[1]) \o OctetBits(o[2]) \o OctetBits(o[3]) \o OctetBits(o[4])

\* ip_int ^ ALL_ONES
Complement(bits) == [i \in 1..Len(bits) |-> 1 - bits[i]]

\* ipaddress._count_righthand_zero_bits(number, 32)
RECURSIVE TrailingZeroBits(_)
TrailingZeroBits(bits) ==
    IF bits = <<>> \/ bits[Len(bits)] = 1 THEN 0
    ELSE 1 + TrailingZeroBits(SubSeq(bits, 1, Len(bits) - 1))

\* ipaddress._prefix_from_ip_int: the prefix length of a netmask; what is left
\* of the trailing zeroes must be all ones.
PrefixFromIpIntOf(ip_int) ==
    LET prefixlen == 32 - TrailingZeroBits(ip_int)
    IN  IF \E i \in 1..prefixlen : ip_int[i] # 1
        THEN Raise("ValueError") ELSE Return(prefixlen)

PrefixFromIpInt(ip_int) == Strict(PrefixFromIpIntOf, ip_int)

\* ipaddress._make_netmask of a string: a prefix length in decimal, else a
\* netmask in dotted-quad form, else a hostmask.
MakeNetmaskOf(arg) ==
    LET n == IntOfStripped(arg)
        asMask == PrefixFromIpInt(IpInt(arg))
        asHostmask == PrefixFromIpInt(Complement(IpInt(arg)))
    IN  IF n.kind = "return" /\ n.value <= 32 THEN n
        ELSE IF ~IsDottedQuad(arg) THEN Raise("NetmaskValueError")
        ELSE IF asMask.kind = "return" THEN asMask
        ELSE IF asHostmask.kind = "return" THEN asHostmask
        ELSE Raise("NetmaskValueError")

MakeNetmask(arg) == Strict(MakeNetmaskOf, arg)

\* ipaddress.IPv4Interface(cidr): [ip, prefixlen].
IPv4InterfaceOf(parts) ==
    IF Len(parts) > 2 \/ ~IsDottedQuad(parts[1]) THEN Raise("AddressValueError")
    ELSE Strict(LAMBDA mask :
                    IF mask.kind = "raise" THEN mask
                    ELSE Return([ip |-> parts[1], prefixlen |-> mask.value]),
                IF Len(parts) = 2 THEN MakeNetmask(parts[2]) ELSE Return(32))

IPv4Interface(cidr) == Strict(IPv4InterfaceOf, Split(cidr, <<"/">>))

\* d[k] = v on a dict.
Put(d, k, v) == [x \in (DOMAIN d) \cup {k} |-> IF x = k THEN v ELSE d[x]]

EmptyDict == [x \in {} |-> {}]

\* intfs_ip[intf_name][family][addr] = {"prefix_length": prefix}, the buckets
\* made when missing.
AddAddress(intfs_ip, intf_name, family, addr, prefix) ==
    LET intf == IF intf_name \in DOMAIN intfs_ip THEN intfs_ip[intf_name] ELSE EmptyDict
        bucket == IF family \in DOMAIN intf THEN intf[family] ELSE EmptyDict
    IN  Put(intfs_ip, intf_name,
            Put(intf, family, Put(bucket, addr, [prefix_length |-> prefix])))

\* value of the key=value token at position i (0-based) of vals.
FieldValue(vals, i) ==
    Strict(LAMBDA tok : IF tok.kind = "raise" THEN tok
                        ELSE Index(Split(tok.value, <<"=">>), 1),
           IndexIn(vals, i))

\* The loop over ip_addr_list.splitlines(), from line i.
\* The body of the loop over ip_addr_list.splitlines() for one line.
Ipv4Line(intfs_ip, ipv4_vals) ==
    Strict(LAMBDA intf_name :
        IF intf_name.kind = "raise" THEN intf_name
        ELSE Strict(LAMBDA ipv4_addr_cidr :
            IF ipv4_addr_cidr.kind = "raise" THEN ipv4_addr_cidr
            ELSE Strict(LAMBDA ipv4_network :
                IF ipv4_network.kind = "raise" THEN ipv4_network
                ELSE Return(AddAddress(intfs_ip, intf_name.value, "ipv4",
                                       ipv4_network.value.ip,
                                       ipv4_network.value.prefixlen)),
                IPv4Interface(ipv4_addr_cidr.value)),
            Index(Split(ipv4_vals[1], <<"->">>), 1)),
        FieldValue(ipv4_vals, 2))

RECURSIVE Ipv4Loop(_, _, _)
Ipv4Loop(lines, i, intfs_ip) ==
    IF i > Len(lines) THEN Return(intfs_ip)
    ELSE Strict(LAMBDA r : IF r.kind = "raise" THEN r
                           ELSE Ipv4Loop(lines, i + 1, r.value),
                Strict(LAMBDA ipv4_vals : Ipv4Line(intfs_ip, ipv4_vals),
                       Split(lines[i], <<SP>>)))

\* The loop over ipv6_addr_list.splitlines(), from line i.
\* The same body reading the prefix length one column to the left.
Ipv6LineScopeColumn(intfs_ip, ipv6_vals) ==
    Strict(LAMBDA intf_name :
        IF intf_name.kind = "raise" THEN intf_name
        ELSE Strict(LAMBDA ipv6_addr :
            IF ipv6_addr.kind = "raise" THEN ipv6_addr
            ELSE Strict(LAMBDA prefix_text :
                IF prefix_text.kind = "raise" THEN prefix_text
                ELSE Strict(LAMBDA ipv6_prefix :
                    IF ipv6_prefix.kind = "raise" THEN ipv6_prefix
                    ELSE Return(AddAddress(intfs_ip, intf_name.value, "ipv6",
                                           ipv6_addr.value, ipv6_prefix.value)),
                    PyInt(prefix_text.value)),
                FieldValue(ipv6_vals, 3)),
            FieldValue(ipv6_vals, 5)),
        FieldValue(ipv6_vals, 1))

\* The body of the loop over ipv6_addr_list.splitlines() for one line.
Ipv6Line(intfs_ip, ipv6_vals) ==
    Strict(LAMBDA intf_name :
        IF intf_name.kind = "raise" THEN intf_name
        ELSE Strict(LAMBDA ipv6_addr :
            IF ipv6_addr.kind = "raise" THEN ipv6_addr
            ELSE Strict(LAMBDA prefix_text :
                IF prefix_text.kind = "raise" THEN prefix_text
                ELSE Strict(LAMBDA ipv6_prefix :
                    IF ipv6_prefix.kind = "raise" THEN ipv6_prefix
                    ELSE Return(AddAddress(intfs_ip, intf_name.value, "ipv6",
                                           ipv6_addr.value, ipv6_prefix.value)),
                    PyInt(prefix_text.value)),
                FieldValue(ipv6_vals, 4)),
            FieldValue(ipv6_vals, 5)),
        FieldValue(ipv6_vals, 1))

RECURSIVE Ipv6Loop(_, _, _)
Ipv6Loop(lines, i, intfs_ip) ==
    IF i > Len(lines) THEN Return(intfs_ip)
    ELSE Strict(LAMBDA r : IF r.kind = "raise" THEN r
                           ELSE Ipv6Loop(lines, i + 1, r.value),
                Strict(LAMBDA ipv6_vals : Ipv6Line(intfs_ip, ipv6_vals),
                       Split(lines[i], <<SP>>)))

ParseInterfacesIp(ip_addr_list, ipv6_addr_list) ==
    Strict(LAMBDA v4 :
               IF v4.kind = "raise" THEN v4
               ELSE Strict(LAMBDA lines : Ipv6Loop(lines, 1, v4.value),
                           SplitLines(ipv6_addr_list)),
           Strict(LAMBDA lines : Ipv4Loop(lines, 1, EmptyDict),
                  SplitLines(ip_addr_list)))

CmdIpList == <<"diagnose", SP, "ip", SP, "address", SP, "list">>
CmdIpv6List == <<"diagnose", SP, "ipv6", SP, "address", SP, "list">>

get_interfaces_ip(dev, resp) ==
    Strict(LAMBDA s : IF s.kind = "raise" THEN s
                      ELSE ParseInterfacesIp(s.value[1], s.value[2]),
           SendAll(dev, <<CmdIpList, CmdIpv6List>>, resp, 1))

----
\* FortinetDriver.get_config

CmdShow == <<"show">>

\* The three tests of retrieve, in order.
ConfigBucketsCandidateFilled(retrieve, show_config) ==
    [candidate |-> IF retrieve \in {"candidate", "all"} THEN show_config ELSE <<>>,
     running |-> IF retrieve \in {"running", "all"} THEN show_config ELSE <<>>,
     startup |-> IF retrieve \in {"startup", "all"} THEN show_config ELSE <<>>]

ConfigBuckets(retrieve, show_config) ==
    [candidate |-> <<>>,
     running |-> IF retrieve \in {"running", "all"} THEN show_config ELSE <<>>,
     startup |-> IF retrieve \in {"startup", "all"} THEN show_config ELSE <<>>]

get_config(dev, retrieve, resp) ==
    Strict(LAMBDA s : IF s.kind = "raise" THEN s
                      ELSE Return(ConfigBuckets(retrieve, s.value[1])),
           SendAll(dev, <<CmdShow>>, resp, 1))

----
\* FortinetDriver.is_alive

\* The exceptions the except clause catches.
IsAliveCaughtNarrow == {"socket.error", "EOFError"}

IsAliveCaught == {"socket.error", "EOFError", "OSError", "AttributeError"}

\* probe = [write, active]: what write_channel raises ("none": nothing) and what
\* remote_conn.transport.is_active() gives ("True", "False", or the exception
\* raised while reaching it).
is_alive(dev, probe) ==
    IF dev = "None" THEN Return([is_alive |-> FALSE])
    ELSE LET r == IF probe.write # "none" THEN Raise(probe.write)
                  ELSE IF probe.active \in {"True", "False"}
                  THEN Return([is_alive |-> (probe.active = "True")])
                  ELSE Raise(probe.active)
         IN  IF r.kind = "raise" /\ r.value \in IsAliveCaught
             THEN Return([is_alive |-> FALSE])
             ELSE r

\* The probes the session can answer with.
Probes(dev, tr) ==
    IF dev = "None" THEN {[write |-> "none", active |-> "False"]}
    ELSE IF dev = "closed"
    THEN {[write |-> w, active |-> "False"] : w \in {"AttributeError", "OSError"}}
         \cup {[write |-> "none", active |-> "AttributeError"]}
    ELSE {[write |-> w, active |-> "False"] : w \in {"socket.error", "EOFError", "OSError"}}
         \cup {[write |-> "none", active |-> "False"]}
         \cup (IF tr = "up" THEN {[write |-> "none", active |-> "True"]} ELSE {})

----
\* The state machine.

\* No call is in progress and no result is waiting for the caller.
NoCall == [op |-> "idle"]

Idle == last = NoCall

Init ==
    /\ device = "None"
    /\ transport = "down"
    /\ last = NoCall

\* open(): _netmiko_open either gives a session or raises ConnectionException.
Open ==
    /\ Idle
    /\ \E ok \in BOOLEAN :
           /\ device' = IF ok THEN "open" ELSE device
           /\ transport' = IF ok THEN "up" ELSE transport
           /\ last' = [op |-> "open", pre |-> device,
                       out |-> IF ok THEN Return("None")
                               ELSE Raise("ConnectionException")]

\* close(): self.device.disconnect()
Close ==
    /\ Idle
    /\ device' = IF device = "None" THEN device ELSE "closed"
    /\ transport' = IF device = "None" THEN transport ELSE "down"
    /\ last' = [op |-> "close", pre |-> device,
                out |-> IF device = "None" THEN Raise("AttributeError")
                        ELSE Return("None")]

\* The transport of an open session dies.
TransportDies ==
    /\ device = "open"
    /\ transport = "up"
    /\ transport' = "dead"
    /\ UNCHANGED <<device, last>>

IsAlive ==
    /\ Idle
    /\ \E probe \in Probes(device, transport) :
           /\ last' = [op |-> "is_alive", pre |-> device, pretr |-> transport,
                       probe |-> probe, out |-> is_alive(device, probe)]
           /\ transport' = IF device = "open" /\ probe # [write |-> "none", active |-> "True"]
                           THEN "dead" ELSE transport
           /\ UNCHANGED device

\* _send_command called with one command or with a list of variants.
VariantCmd(i) == <<"get", SP, "variant", Digits[i + 1]>>

\* The device's output for variant i: accepted, or rejected with the marker.
VariantOut(i, verdict) ==
    IF verdict = "accept" THEN <<"output", SP, "of", SP, Digits[i + 1], NL>>
    ELSE <<"Unknown", SP, "action", NL>> \o InvalidInput \o <<Digits[i + 1], NL>>

SendCommand ==
    /\ Idle
    /\ \E isList \in BOOLEAN :
       \E verdicts \in SeqUpTo({"accept", "reject"}, MaxVariants) :
       \E plan \in FaultPlans(device, transport, Len(verdicts)) :
           /\ isList \/ Len(verdicts) = 1
           /\ LET command == [isList |-> isList,
                              cmds |-> [i \in 1..Len(verdicts) |-> VariantCmd(i)]]
                  outs == [i \in 1..Len(verdicts) |-> VariantOut(i, verdicts[i])]
                  resp == Answers(outs, plan)
                  r == _send_command(device, command, resp)
              IN  /\ last' = [op |-> "_send_command", pre |-> device, pretr |-> transport,
                              command |-> command, verdicts |-> verdicts,
                              plan |-> plan, resp |-> resp, out |-> r]
                  /\ transport' = TransportAfterCall(device, transport, r)
           /\ UNCHANGED device

\* Outputs of `get system arp`.
ArpHeader ==
    <<"Address", SP, SP, "Age(min)", SP, SP, "Hardware", SP, "Addr", SP, SP, "Interface">>

ArpLineA == <<"10.0.0.1", SP, SP, "0", SP, SP, "00:09:0f:aa:bb:01", SP, "port1">>

ArpLineB == <<"10.0.0.2", SP, "1", "2", SP, SP, SP, "00:09:0f:aa:bb:02", SP, "port2">>

\* The lines of an output: none at all, or a first line and up to MaxArpLines
\* more, blank ones among them.
ArpOutputs ==
    {<<>>} \cup
    {<<h>> \o body :
        h \in {ArpHeader, ArpLineA, <<>>},
        body \in SeqUpTo({ArpLineA, ArpLineB, <<>>}, MaxArpLines)}

GetArpTable ==
    /\ Idle
    /\ \E lines \in ArpOutputs :
       \E plan \in FaultPlans(device, transport, 1) :
           LET resp == Answers(<<Unlines(lines)>>, plan)
           IN  \E r \in {get_arp_table(device, resp)} :
               /\ last' = [op |-> "get_arp_table", pre |-> device, pretr |-> transport,
                           lines |-> lines, plan |-> plan, resp |-> resp, out |-> r]
               /\ transport' = TransportAfterCall(device, transport, r)
               /\ UNCHANGED device

\* Outputs of `show`.
ShowOutputs ==
    {<<"config", SP, "system", SP, "global", NL, IND, "set", SP, "hostname", SP, "fw1", NL,
       "end", NL>>,
     <<"config", SP, "system", SP, "global", NL, "end", NL>>}

GetConfig ==
    /\ Idle
    /\ \E retrieve \in {"all", "candidate", "running", "startup"} :
       \E text \in ShowOutputs :
       \E plan \in FaultPlans(device, transport, 1) :
           LET resp == Answers(<<text>>, plan)
           IN  \E r \in {get_config(device, retrieve, resp)} :
               /\ last' = [op |-> "get_config", pre |-> device, pretr |-> transport,
                           plan |-> plan, retrieve |-> retrieve, resp |-> resp, out |-> r]
               /\ transport' = TransportAfterCall(device, transport, r)
               /\ UNCHANGED device

\* Outputs of `show full-configuration router bgp`: the neighbor table with its
\* entries, between an optional table before it and an optional one after it.
NeighborIp(i) == <<"10", ".", "0", ".", "0", ".", Digits[i + 1]>>

EntryBody(kind) ==
    IF kind = "none" THEN <<>>
    ELSE IF kind = "set"
    THEN <<IND, IND, IND, "set", SP, "remote-as", SP, "6", "5", "0", "0", "2", NL>>
    ELSE <<IND, IND, IND, "config", SP, "conditional-advertise", NL,
           IND, IND, IND, IND, "edit", SP, QUOTE, "rm-adv", QUOTE, NL,
           IND, IND, IND, IND, "next", NL,
           IND, IND, IND, "end", NL>>

RECURSIVE NeighborEntries(_, _)
NeighborEntries(bodies, i) ==
    IF i > Len(bodies) THEN <<>>
    ELSE <<IND, IND, "edit", SP, QUOTE>> \o NeighborIp(i) \o <<QUOTE, NL>>
         \o EntryBody(bodies[i]) \o <<IND, IND, "next", NL>>
         \o NeighborEntries(bodies, i + 1)

OtherTable(name, kind) ==
    IF kind = "none" THEN <<>>
    ELSE <<IND, "config", SP, name, NL>>
         \o (IF kind = "empty" THEN <<>>
             ELSE <<IND, IND, "edit", SP, "1", NL,
                    IND, IND, IND, "set", SP, "prefix", SP, "192.0.2.0", SP,
                    "255.255.255.0", NL,
                    IND, IND, "next", NL>>)
         \o <<IND, "end", NL>>

BgpDump(d) ==
    <<"config", SP, "router", SP, "bgp", NL,
      IND, "set", SP, "as", SP, "6", "5", "0", "0", "1", NL>>
    \o OtherTable("aggregate-address", d.before)
    \o (IF d.table
        THEN <<IND, "config", SP, "neighbor", NL>> \o NeighborEntries(d.bodies, 1)
             \o <<IND, "end", NL>>
        ELSE <<>>)
    \o OtherTable("network", d.after)
    \o <<"end", NL>>

BgpDumps ==
    {[before |-> b, table |-> TRUE, bodies |-> bodies, after |-> a] :
        b \in {"none", "entry"},
        bodies \in SeqUpTo({"none", "set", "nested"}, MaxNeighbors),
        a \in {"none", "empty", "entry"}}
    \cup {[before |-> "entry", table |-> FALSE, bodies |-> <<>>, after |-> "entry"]}

GetBgpConfig ==
    /\ Idle
    /\ \E dump \in BgpDumps :
       \E plan \in FaultPlans(device, transport, 1) :
           LET resp == Answers(<<BgpDump(dump)>>, plan)
           IN  \E r \in {get_bgp_config(device, resp)} :
               /\ last' = [op |-> "get_bgp_config", pre |-> device, pretr |-> transport,
                           plan |-> plan, dump |-> dump, resp |-> resp, out |-> r]
               /\ transport' = TransportAfterCall(device, transport, r)
               /\ UNCHANGED device

\* Outputs of the four queries of get_facts.
StatusFull ==
    <<"Version", ":", SP, "FortiGate-60E", SP, "v", "6.2.3", ",", "build1066", ",",
      "191218", SP, "(GA)", NL,
      "Serial-Number", ":", SP, "FGT60E0000000001", NL,
      "Hostname", ":", SP, "fw1", NL>>

StatusOutputs == {StatusFull, <<>>}

\* A number below 100 as the device prints it, with or without a leading zero.
Numeral(n, pad) ==
    IF n < 10 THEN (IF pad THEN <<"0">> ELSE <<>>) \o <<Digits[n + 1]>>
    ELSE <<Digits[(n \div 10) + 1], Digits[(n % 10) + 1]>>

\* u = [form, d, h, m, pad]: the full line, no output, a line without its days,
\* a line with single spaces after the commas.
UptimeOutput(u) ==
    IF u.form = "full"
    THEN <<"Uptime", ":", SP>> \o Numeral(u.d, FALSE) \o <<SP, "days", ",", SP, SP>>
         \o Numeral(u.h, u.pad) \o <<SP, "hours", ",", SP, SP>>
         \o Numeral(u.m, u.pad) \o <<SP, "minutes", NL>>
    ELSE IF u.form = "empty" THEN <<>>
    ELSE IF u.form = "nodays"
    THEN <<"Uptime", ":", SP>> \o Numeral(u.h, u.pad) \o <<SP, "hours", ",", SP, SP>>
         \o Numeral(u.m, u.pad) \o <<SP, "minutes", NL>>
    ELSE <<"Uptime", ":", SP>> \o Numeral(u.d, FALSE) \o <<SP, "days", ",", SP>>
         \o Numeral(u.h, u.pad) \o <<SP, "hours", ",", SP>>
         \o Numeral(u.m, u.pad) \o <<SP, "minutes", NL>>

Uptimes ==
    {[form |-> "full", d |-> d, h |-> h, m |-> m, pad |-> pad] :
        d \in {0, 2}, h \in {0, 3, 23}, m \in {0, 15, 59}, pad \in BOOLEAN}
    \cup {[form |-> f, d |-> 2, h |-> 3, m |-> 15, pad |-> TRUE] :
            f \in {"empty", "nodays", "onespace"}}

DnsOutputs ==
    {<<"domain", SP, SP, ":", SP, QUOTE, "example.com", QUOTE, NL>>,
     <<"domain", SP, SP, ":", SP, NL>>}

IntfOutput ==
    <<"=", "=", SP, "[", SP, "port1", SP, "]", NL, "=", "=", SP, "[", SP, "wan1", SP, "]", NL>>

GetFacts ==
    /\ Idle
    /\ \E status \in StatusOutputs :
       \E u \in Uptimes :
       \E dns \in DnsOutputs :
       \E plan \in FaultPlans(device, transport, 4) :
           LET resp == Answers(<<status, UptimeOutput(u), dns, IntfOutput>>, plan)
           IN  \E r \in {get_facts(device, resp)} :
               /\ last' = [op |-> "get_facts", pre |-> device, pretr |-> transport,
                           plan |-> plan, uptime |-> u, resp |-> resp, out |-> r]
               /\ transport' = TransportAfterCall(device, transport, r)
               /\ UNCHANGED device

\* Outputs of `diagnose ip address list` and `diagnose ipv6 address list`: a
\* line per address, described by its fields; a blank line has none.
BlankLine == [blank |-> TRUE]

Ipv4Lines ==
    {[blank |-> FALSE, addr |-> "10.0.0.1", mask |-> "255.255.255.0", index |-> "3",
      devname |-> "port1", prefixlen |-> 24],
     [blank |-> FALSE, addr |-> "192.0.2.1", mask |-> "255.255.255.255", index |-> "7",
      devname |-> "lo0", prefixlen |-> 32],
     [blank |-> FALSE, addr |-> "0.0.0.0", mask |-> "0.0.0.0", index |-> "4",
      devname |-> "port2", prefixlen |-> 0]}

Ipv4Text(d) ==
    IF d.blank THEN <<>>
    ELSE <<"IP", "=", d.addr, "->", d.addr, "/", d.mask, SP, "index", "=", d.index, SP,
           "devname", "=", d.devname>>

Ipv6Lines ==
    {[blank |-> FALSE, dev |-> "3", devname |-> "port1", scope |-> <<"0">>,
      prefix |-> <<"6", "4">>, addr |-> "2001:db8::1", prefixlen |-> 64],
     [blank |-> FALSE, dev |-> "3", devname |-> "port1", scope |-> <<"2", "5", "3">>,
      prefix |-> <<"6", "4">>, addr |-> "fe80::1", prefixlen |-> 64],
     [blank |-> FALSE, dev |-> "9", devname |-> "dmz", scope |-> <<"0">>,
      prefix |-> <<"1", "2", "8">>, addr |-> "2001:db8:1::1", prefixlen |-> 128],
     [blank |-> FALSE, dev |-> "8", devname |-> "tun0", scope |-> <<"2", "5", "3">>,
      prefix |-> <<"0">>, addr |-> "::", prefixlen |-> 0]}

Ipv6Text(d) ==
    IF d.blank THEN <<>>
    ELSE <<"dev", "=", d.dev, SP, "devname", "=", d.devname, SP, "flag", "=", "P", SP,
           "scope", "=">> \o d.scope \o <<SP, "prefix", "=">> \o d.prefix
         \o <<SP, "addr", "=", d.addr, SP, "preferred", "=", "forever">>

IpOutputs(lines) == SeqUpTo(lines \cup {BlankLine}, MaxIpLines)

GetInterfacesIp ==
    /\ Idle
    /\ \E v4 \in IpOutputs(Ipv4Lines) :
       \E v6 \in IpOutputs(Ipv6Lines) :
       \E plan \in FaultPlans(device, transport, 2) :
           /\ plan.at # 0 => (v4 = <<>> /\ v6 = <<>>)
           /\ LET resp == Answers(<<Unlines([i \in 1..Len(v4) |-> Ipv4Text(v4[i])]),
                                     Unlines([i \in 1..Len(v6) |-> Ipv6Text(v6[i])])>>,
                                   plan)
              IN  \E r \in {get_interfaces_ip(device, resp)} :
                      /\ last' = [op |-> "get_interfaces_ip", pre |-> device,
                                  pretr |-> transport, v4 |-> v4, v6 |-> v6,
                                  plan |-> plan, resp |-> resp, out |-> r]
                      /\ transport' = TransportAfterCall(device, transport, r)
           /\ UNCHANGED device

\* The queries the driver declares and leaves unimplemented: the body is `pass`.
Unimplemented ==
    {"get_bgp_neighbors", "get_bgp_neighbors_detail", "get_environment",
     "get_firewall_policies", "get_interfaces_counters", "get_ipv6_neighbors_table",
     "get_lldp_neighbors", "get_lldp_neighbors_detail", "get_mac_address_table",
     "get_network_instances", "get_ntp_peers", "get_ntp_servers", "get_ntp_stats",
     "get_optics", "get_probes_config", "get_probes_results", "get_route_to",
     "get_snmp_information", "get_users", "ping", "traceroute"}

Stub ==
    /\ Idle
    /\ \E op \in Unimplemented :
           /\ last' = [op |-> op, pre |-> device, pretr |-> transport, out |-> Return("None")]
           /\ UNCHANGED <<device, transport>>

\* The caller takes the result of the call; the driver keeps nothing of it.
TakeResult ==
    /\ ~Idle
    /\ last' = NoCall
    /\ UNCHANGED <<device, transport>>

Next ==
    \/ TakeResult
    \/ GetInterfacesIp
    \/ Stub
    \/ GetFacts
    \/ GetBgpConfig
    \/ Open
    \/ Close
    \/ TransportDies
    \/ IsAlive
    \/ SendCommand
    \/ GetArpTable
    \/ GetConfig

Spec == Init /\ [][Next]_vars

----
\* Properties.

Returned == last.out.kind = "return"

Raised(e) == last.out.kind = "raise" /\ last.out.value = e

\* The call was made on an open session whose transport did not fail.
Undisturbed == last.pre = "open" /\ last.plan.at = 0

TransportFaults == {"socket.error", "EOFError"}

\* C1: _send_command with a non-empty list sends the variants in list order and
\* returns the output of the first variant the device does not reject, sending
\* none after it; when the device rejects every variant it returns the output of
\* the last one, marker included.
C1_FirstAcceptedVariant ==
    (last.op = "_send_command" /\ last.command.isList /\ last.command.cmds # <<>>) =>
        LET cmds == last.command.cmds
            n == Len(last.out.sent)
            v == last.verdicts
        IN  /\ Undisturbed => Returned
            /\ Returned =>
                  /\ n \in 1..Len(cmds)
                  /\ last.out.sent = SubSeq(cmds, 1, n)
                  /\ \A i \in 1..(n - 1) : v[i] = "reject"
                  /\ v[n] = "accept" \/ n = Len(cmds)
                  /\ last.out.value = VariantOut(n, v[n])
                  /\ v[n] = "reject" => Contains(last.out.value, InvalidInput)

\* C1 witness: three variants, the first rejected and the second accepted; the
\* second one's output is returned and the third is never sent.
C1_Witness ==
    /\ last.op = "_send_command" /\ last.command.isList /\ Returned
    /\ last.verdicts = <<"reject", "accept", "accept">>
    /\ last.out.sent = <<VariantCmd(1), VariantCmd(2)>>
    /\ last.out.value = VariantOut(2, "accept")

QueryOps ==
    {"get_arp_table", "get_bgp_config", "get_config", "get_facts", "get_interfaces_ip"}

\* C2: a query on a driver that was never opened, or that was closed, fails with
\* a connection error and not with an AttributeError on the missing session.
C2_ClosedQueryNotConnected ==
    (last.op \in QueryOps /\ last.pre \in {"None", "closed"}) =>
        /\ last.out.kind = "raise"
        /\ last.out.value \in {"ConnectionClosedException", "ConnectionException"}

\* C3: is_alive always returns a boolean status, FALSE before open(), and TRUE
\* only when the write succeeded and the transport reports itself active.
C3_IsAliveNeverRaises ==
    last.op = "is_alive" =>
        /\ Returned
        /\ last.out.value.is_alive \in BOOLEAN
        /\ last.pre = "None" => last.out.value.is_alive = FALSE
        /\ last.out.value.is_alive = TRUE =>
              /\ last.pre = "open"
              /\ last.probe.write = "none"
              /\ last.probe.active = "True"

\* C3 witness: after close() the probe fails on the missing channel and
\* is_alive reports FALSE.
C3_Witness ==
    /\ last.op = "is_alive" /\ last.pre = "closed"
    /\ last.probe.active = "AttributeError"
    /\ Returned /\ last.out.value.is_alive = FALSE

\* C4: a socket error or an end-of-stream raised by the session at a command
\* that _send_command sends comes out as ConnectionClosedException, and only
\* that does; a command the device rejects raises nothing and its text, marker
\* included, is returned.
C4_TransportFailureResignaled ==
    last.op = "_send_command" =>
        LET cmds == last.command.cmds
            v == last.verdicts
            k == last.plan.at
            n == Len(last.out.sent)
            reached == /\ last.pre # "None"
                       /\ k \in 1..Len(cmds)
                       /\ \A i \in 1..(k - 1) : v[i] = "reject"
        IN  /\ (reached /\ last.plan.kind \in TransportFaults)
                  <=> Raised("ConnectionClosedException")
            /\ (Returned /\ v[n] = "reject") => Contains(last.out.value, InvalidInput)
            /\ (Returned /\ v[n] = "accept") => ~Contains(last.out.value, InvalidInput)
            /\ (~last.command.isList /\ Undisturbed) =>
                  Returned /\ last.out.value = VariantOut(1, v[1])

\* C4 witness: the transport ends while the second variant of a list is sent.
C4_Witness ==
    /\ last.op = "_send_command" /\ last.command.isList /\ last.pre = "open"
    /\ last.plan = [at |-> 2, kind |-> "EOFError"]
    /\ last.verdicts[1] = "reject"
    /\ Raised("ConnectionClosedException")

NeighborKeys(dump) == {NeighborIp(i) : i \in 1..Len(dump.bodies)}

\* C5: with a neighbor table of K entries in the dump, K >= 0, get_bgp_config
\* returns a neighbors mapping whose keys are the K addresses of the table, each
\* with the placeholder record.
C5_NeighborKeys ==
    (last.op = "get_bgp_config" /\ Undisturbed /\ last.dump.table) =>
        /\ Returned
        /\ DOMAIN last.out.value.instance.neighbors = NeighborKeys(last.dump)
        /\ \A k \in DOMAIN last.out.value.instance.neighbors :
              last.out.value.instance.neighbors[k] = NeighborDefault

\* The same for the dumps whose neighbor table has an entry.
BgpNeighborKeysOfNonEmptyTable ==
    (last.op = "get_bgp_config" /\ last.dump.bodies # <<>>) => C5_NeighborKeys

\* C6: get_config returns the output of `show` in the running bucket when
\* running or all is asked for and in the startup bucket when startup or all
\* is; every other bucket, and the candidate bucket always, is empty.
C6_ConfigBuckets ==
    last.op = "get_config" =>
        LET text == last.resp[1].out
            asked(b) == last.retrieve \in {b, "all"}
        IN  /\ Undisturbed => Returned
            /\ Returned =>
                  /\ last.out.value.candidate = <<>>
                  /\ last.out.value.running = IF asked("running") THEN text ELSE <<>>
                  /\ last.out.value.startup = IF asked("startup") THEN text ELSE <<>>

\* C6 witness: the running configuration alone was asked for and returned.
C6_Witness ==
    /\ last.op = "get_config" /\ last.retrieve = "running" /\ Returned
    /\ last.out.value.running = last.resp[1].out
    /\ last.out.value.running # <<>>
    /\ last.out.value.startup = <<>>

ArpExpected(line) ==
    IF line = ArpLineA
    THEN [ip |-> <<"10.0.0.1">>, age |-> 0, mac |-> <<"00:09:0f:aa:bb:01">>,
          interface |-> <<"port1">>]
    ELSE [ip |-> <<"10.0.0.2">>, age |-> 12, mac |-> <<"00:09:0f:aa:bb:02">>,
          interface |-> <<"port2">>]

\* C7: get_arp_table drops the first line of the output whatever it holds and
\* returns one entry per data line, in order: ip, age, mac and interface from
\* columns 0, 1, 2 and 3.
C7_ArpSkipsFirstLine ==
    (/\ last.op = "get_arp_table" /\ Undisturbed
     /\ last.lines # <<>>
     /\ \A i \in 2..Len(last.lines) : last.lines[i] \in {ArpLineA, ArpLineB}) =>
        /\ Returned
        /\ last.out.value = [i \in 1..(Len(last.lines) - 1) |-> ArpExpected(last.lines[i + 1])]

\* C7 witness: the first line looks like a data line and is dropped all the
\* same; the two lines after it come back in their order.
C7_Witness ==
    /\ last.op = "get_arp_table" /\ Undisturbed /\ Returned
    /\ last.lines = <<ArpLineA, ArpLineB, ArpLineA>>
    /\ last.out.value = <<ArpExpected(ArpLineB), ArpExpected(ArpLineA)>>

NamedIn(lines, intf) ==
    \E i \in 1..Len(lines) : ~lines[i].blank /\ <<lines[i].devname>> = intf

Listed(lines, bucket) ==
    \A i \in 1..Len(lines) :
        /\ <<lines[i].devname>> \in DOMAIN last.out.value
        /\ bucket \in DOMAIN last.out.value[<<lines[i].devname>>]
        /\ <<lines[i].addr>> \in DOMAIN last.out.value[<<lines[i].devname>>][bucket]
        /\ last.out.value[<<lines[i].devname>>][bucket][<<lines[i].addr>>]
              = [prefix_length |-> lines[i].prefixlen]

\* C8: in what get_interfaces_ip returns, an ipv4 prefix length is in 0..32 and
\* an ipv6 one in 0..128, and an interface has a family's bucket only when a
\* line of that family's list names it; when no line is blank, each address
\* listed is returned with the prefix length of its line.
C8_PrefixRangesAndFamilies ==
    last.op = "get_interfaces_ip" =>
        LET v == last.out.value
            noBlank == /\ \A i \in 1..Len(last.v4) : ~last.v4[i].blank
                       /\ \A i \in 1..Len(last.v6) : ~last.v6[i].blank
        IN  /\ (Undisturbed /\ noBlank) =>
                  Returned /\ Listed(last.v4, "ipv4") /\ Listed(last.v6, "ipv6")
            /\ Returned =>
                  \A intf \in DOMAIN v :
                      /\ DOMAIN v[intf] # {}
                      /\ DOMAIN v[intf] \subseteq {"ipv4", "ipv6"}
                      /\ "ipv4" \in DOMAIN v[intf] =>
                            /\ NamedIn(last.v4, intf)
                            /\ \A a \in DOMAIN v[intf]["ipv4"] :
                                  v[intf]["ipv4"][a].prefix_length \in 0..32
                      /\ "ipv6" \in DOMAIN v[intf] =>
                            /\ NamedIn(last.v6, intf)
                            /\ \A a \in DOMAIN v[intf]["ipv6"] :
                                  v[intf]["ipv6"][a].prefix_length \in 0..128

\* C8 witness: a loopback with an IPv4 /32 only and a tunnel with an IPv6 /0
\* only, listed on a line whose scope field is 253.
C8_Witness ==
    /\ last.op = "get_interfaces_ip" /\ Returned
    /\ <<"lo0">> \in DOMAIN last.out.value
    /\ DOMAIN last.out.value[<<"lo0">>] = {"ipv4"}
    /\ last.out.value[<<"lo0">>]["ipv4"][<<"192.0.2.1">>].prefix_length = 32
    /\ <<"tun0">> \in DOMAIN last.out.value
    /\ DOMAIN last.out.value[<<"tun0">>] = {"ipv6"}
    /\ last.out.value[<<"tun0">>]["ipv6"][<<"::">>].prefix_length = 0

UptimeFormula(u) == u.d * 86400 + u.h * 3600 + u.m * 60

IsExample(u) == u.form = "full" /\ u.d = 2 /\ u.h = 3 /\ u.m = 15 /\ u.pad

\* C9 as stated: the uptime of "Uptime: D days,  H hours,  M minutes" is
\* D*86400 + H*3600 + M*60, which is 183300 for 2 days, 03 hours, 15 minutes, and
\* an uptime that cannot be parsed is returned as -1.
C9_UptimeAsStated ==
    (last.op = "get_facts" /\ Undisturbed /\ last.resp[1].out = StatusFull) =>
        /\ Returned
        /\ last.uptime.form = "full" => last.out.value.uptime = UptimeFormula(last.uptime)
        /\ IsExample(last.uptime) => last.out.value.uptime = 183300
        /\ last.uptime.form # "full" => last.out.value.uptime = -1

\* What get_facts does with the uptime line: a full line gives
\* D*86400 + H*3600 + M*60 >= 0, which is 184500 for 2 days, 03 hours, 15 minutes;
\* a line that cannot be parsed makes the call raise KeyError or ValueError, and
\* the default -1 is never returned.
UptimeAsComputed ==
    last.op = "get_facts" =>
        /\ (Undisturbed /\ last.resp[1].out = StatusFull /\ last.uptime.form = "full") =>
              /\ Returned
              /\ last.out.value.uptime = UptimeFormula(last.uptime)
              /\ last.out.value.uptime >= 0
              /\ IsExample(last.uptime) => last.out.value.uptime = 184500
        /\ (Undisturbed /\ last.uptime.form # "full") =>
              Raised("KeyError") \/ Raised("ValueError")
        /\ Returned => last.out.value.uptime # -1

BlankTail(lines, from, isBlank(_)) ==
    \E k \in from..Len(lines) :
        /\ \A i \in from..(k - 1) : ~isBlank(lines[i])
        /\ \A i \in k..Len(lines) : isBlank(lines[i])

NonBlank(lines) == {i \in 1..Len(lines) : ~lines[i].blank}

\* C10: get_arp_table and get_interfaces_ip, given an output that ends in blank
\* lines (or no output at all), return the records of the lines before them.
C10_TrailingBlankLines ==
    /\ (/\ last.op = "get_arp_table" /\ Undisturbed
        /\ last.lines = <<>> \/ last.lines[1] # <<>>
        /\ BlankTail(last.lines, 2, LAMBDA l : l = <<>>)) =>
           /\ Returned
           /\ Len(last.out.value)
                 = Cardinality({i \in 2..Len(last.lines) : last.lines[i] # <<>>})
    /\ (/\ last.op = "get_interfaces_ip" /\ Undisturbed
        /\ BlankTail(last.v4, 1, LAMBDA l : l.blank)
        /\ BlankTail(last.v6, 1, LAMBDA l : l.blank)) =>
           /\ Returned
           /\ DOMAIN last.out.value
                 = {<<last.v4[i].devname>> : i \in NonBlank(last.v4)}
                   \cup {<<last.v6[i].devname>> : i \in NonBlank(last.v6)}

====
